---------------------------- MODULE Spec2Model ----------------------------
(***************************************************************************)
(* kafka-connect-exporter (src/exporters/kafka-connect/src/main.rs).       *)
(*                                                                         *)
(* The exporter polls the Kafka Connect REST API of every configured       *)
(* endpoint, renders connector and task states as Prometheus text, stores  *)
(* the text in an RwLock<String> cache and serves it on /metrics.          *)
(*                                                                         *)
(* Text is modelled as a sequence of atoms: an atom is one rendered metric *)
(* line (a record of its metric name, labels and value) or the newline     *)
(* character NL.  Strings the code inspects character by character (URLs,  *)
(* state names) are sequences of one-character strings.  Connector names   *)
(* are opaque identifiers (numbers).                                       *)
(***************************************************************************)
EXTENDS Integers, Sequences, FiniteSets, TLC

(***************************************************************************)
(* Bounds of the model.                                                    *)
(***************************************************************************)
\* connector names an upstream cluster may hold: 1..MaxConnectors
MaxConnectors == 2
\* concurrently served HTTP requests
NumHandlers == 2

\* bound: the ticks the clock of the timed specification counts
MaxClock == 3

\* config.scrape_interval, in ticks
Interval == 1

\* bound: the length of the host names composed letter by letter
MaxHostLen == 2

\* bound: the slashes that end a configured URL
MaxSlashes == 2

(***************************************************************************)
(* Characters and strings.                                                 *)
(***************************************************************************)
RECURSIVE Flatten(_)
Flatten(ss) == IF ss = <<>> THEN <<>> ELSE Head(ss) \o Flatten(Tail(ss))

StartsWith(s, pre) ==
    /\ Len(s) >= Len(pre)
    /\ SubSeq(s, 1, Len(pre)) = pre

Drop(s, n) == SubSeq(s, n + 1, Len(s))

\* char::is_whitespace, restricted to the characters the inputs use
WhiteSpace == {" ", "\t"}

RECURSIVE TrimStart(_)
TrimStart(s) ==
    IF s # <<>> /\ Head(s) \in WhiteSpace THEN TrimStart(Tail(s)) ELSE s

RECURSIVE TrimEnd(_)
TrimEnd(s) ==
    IF s # <<>> /\ s[Len(s)] \in WhiteSpace
    THEN TrimEnd(SubSeq(s, 1, Len(s) - 1))
    ELSE s

\* str::trim
Trim(s) == TrimEnd(TrimStart(s))

\* str::trim_end_matches(char): removes every trailing occurrence
RECURSIVE TrimEndMatches(_, _)
TrimEndMatches(s, c) ==
    IF s # <<>> /\ s[Len(s)] = c
    THEN TrimEndMatches(SubSeq(s, 1, Len(s) - 1), c)
    ELSE s

\* str::trim_start_matches(&str): removes the prefix as often as it repeats
RECURSIVE TrimStartMatches(_, _)
TrimStartMatches(s, pre) ==
    IF pre # <<>> /\ StartsWith(s, pre)
    THEN TrimStartMatches(Drop(s, Len(pre)), pre)
    ELSE s

\* str::split(char): the pieces between the separators, at least one piece
RECURSIVE SplitOn(_, _, _)
SplitOn(s, c, cur) ==
    IF s = <<>> THEN <<cur>>
    ELSE IF Head(s) = c THEN <<cur>> \o SplitOn(Tail(s), c, <<>>)
    ELSE SplitOn(Tail(s), c, Append(cur, Head(s)))

Split(s, c) == SplitOn(s, c, <<>>)

RECURSIVE SelectNonEmpty(_)
SelectNonEmpty(ss) ==
    IF ss = <<>> THEN <<>>
    ELSE IF Head(ss) # <<>> THEN <<Head(ss)>> \o SelectNonEmpty(Tail(ss))
    ELSE SelectNonEmpty(Tail(ss))

LowerOf(c) ==
    CASE c = "A" -> "a" [] c = "D" -> "d" [] c = "E" -> "e" [] c = "F" -> "f"
      [] c = "G" -> "g" [] c = "I" -> "i" [] c = "L" -> "l" [] c = "N" -> "n"
      [] c = "O" -> "o" [] c = "P" -> "p" [] c = "R" -> "r" [] c = "S" -> "s"
      [] c = "T" -> "t" [] c = "U" -> "u" [] c = "Y" -> "y" [] OTHER -> c

\* str::to_lowercase, on the letters the inputs use
ToLowercase(s) == [k \in 1..Len(s) |-> LowerOf(s[k])]

(***************************************************************************)
(* Config::from_env: KAFKA_CONNECT_URLS.                                   *)
(***************************************************************************)
HTTP == <<"h", "t", "t", "p", ":", "/", "/">>
HTTPS == <<"h", "t", "t", "p", "s", ":", "/", "/">>

\* the value std::env::var("KAFKA_CONNECT_URLS") gives when the variable is unset
Unset == <<"<unset>">>

\* "http://localhost:8083"
DefaultUrls ==
    HTTP \o <<"l", "o", "c", "a", "l", "h", "o", "s", "t", ":", "8", "0", "8", "3">>

\* one entry of the list: u.trim().trim_end_matches('/')
NormalizeUrl(u) == TrimEndMatches(Trim(u), "/")

\* config.connect_urls for a value of the environment variable
ConnectUrls(env) ==
    LET urls == IF env = Unset THEN DefaultUrls ELSE env
        pieces == Split(urls, ",")
    IN  SelectNonEmpty([k \in 1..Len(pieces) |-> NormalizeUrl(pieces[k])])

\* removes every leading character that occurs in the pattern
RECURSIVE TrimStartChars(_, _)
TrimStartChars(s, pre) ==
    IF s # <<>> /\ \E k \in 1..Len(pre) : pre[k] = s[1]
    THEN TrimStartChars(Tail(s), pre)
    ELSE s

\* the label with the patterns taken as sets of characters
InstanceStrippingChars(base_url) ==
    TrimStartChars(TrimStartChars(base_url, HTTP), HTTPS)

\* the instance label scrape_connect derives from a base URL
Instance(base_url) == TrimStartMatches(TrimStartMatches(base_url, HTTP), HTTPS)

(***************************************************************************)
(* Rendered text.                                                          *)
(***************************************************************************)
NoId == -1

Line(metric, connector, task, state, instance, value) ==
    [metric |-> metric, connector |-> connector, task |-> task,
     state |-> state, instance |-> instance, value |-> value]

\* the character '\n'
NL == Line("\n", NoId, NoId, <<>>, <<>>, 0)

\* String::new()
EmptyString == <<>>

\* [String]::join("\n"): the parts with one newline between neighbours
RECURSIVE Join(_)
Join(parts) ==
    IF parts = <<>> THEN <<>>
    ELSE IF Len(parts) = 1 THEN Head(parts)
    ELSE Head(parts) \o <<NL>> \o Join(Tail(parts))

RUNNING == <<"r", "u", "n", "n", "i", "n", "g">>
FAILED == <<"f", "a", "i", "l", "e", "d">>
PAUSED == <<"p", "a", "u", "s", "e", "d">>
UNASSIGNED == <<"u", "n", "a", "s", "s", "i", "g", "n", "e", "d">>

\* &["running", "failed", "paused", "unassigned"]
States == <<RUNNING, FAILED, PAUSED, UNASSIGNED>>

Bit(b) == IF b THEN 1 ELSE 0

UpLine(instance, v) ==
    Line("kafka_connect_up", NoId, NoId, <<>>, instance, v)

\* the return value of scrape_connect when the list call fails
UnreachableOutput(instance) == <<UpLine(instance, 0), NL>>

\* the four kafka_connect_connector_state lines of one connector
ConnectorStateLines(name, c_state, instance) ==
    [k \in 1..Len(States) |->
        Line("kafka_connect_connector_state", name, NoId, States[k], instance,
             Bit(c_state = States[k]))]

\* the task state compared as reported, without lower-casing it
TaskStateLinesCaseSensitive(name, task, instance) ==
    [k \in 1..Len(States) |->
        Line("kafka_connect_connector_task_state", name, task.id, States[k],
             instance, Bit(task.state = States[k]))]

\* the four kafka_connect_connector_task_state lines of one task
TaskStateLines(name, task, instance) ==
    LET t_state == ToLowercase(task.state)
    IN  [k \in 1..Len(States) |->
            Line("kafka_connect_connector_task_state", name, task.id, States[k],
                 instance, Bit(t_state = States[k]))]

\* the lines of all tasks of one connector, in the order of status.tasks
AllTaskLines(name, tasks, instance) ==
    [k \in 1..(Len(States) * Len(tasks)) |->
        TaskStateLines(name, tasks[((k - 1) \div Len(States)) + 1], instance)
            [((k - 1) % Len(States)) + 1]]

\* the reachability gauge pushed after the three counts
SummaryLinesUpLast(instance, total, running, failed) ==
    << Line("kafka_connect_connectors_total", NoId, NoId, <<>>, instance, total),
       Line("kafka_connect_connectors_running", NoId, NoId, <<>>, instance, running),
       Line("kafka_connect_connectors_failed", NoId, NoId, <<>>, instance, failed),
       UpLine(instance, 1) >>

\* the four summary lines pushed after the connector loop
SummaryLines(instance, total, running, failed) ==
    << UpLine(instance, 1),
       Line("kafka_connect_connectors_total", NoId, NoId, <<>>, instance, total),
       Line("kafka_connect_connectors_running", NoId, NoId, <<>>, instance, running),
       Line("kafka_connect_connectors_failed", NoId, NoId, <<>>, instance, failed) >>

\* lines.join("\n") of a Vec of single lines: line, newline, line, ..., line
JoinLines(lines) ==
    [k \in 1..(2 * Len(lines) - 1) |->
        IF k % 2 = 1 THEN lines[(k + 1) \div 2] ELSE NL]

(***************************************************************************)
(* The upstream Kafka Connect clusters.                                    *)
(*                                                                         *)
(* A cluster is a function from the names of its connectors to the status  *)
(* document GET /connectors/{name}/status returns for each.  The clusters  *)
(* stay as they are during a behaviour; every single request may still     *)
(* fail (network failure, timeout or undecodable body).                    *)
(***************************************************************************)
ConnectorNames == 1..MaxConnectors

Task(id, state) == [id |-> id, state |-> state]

Status(state, tasks) == [connector |-> [state |-> state], tasks |-> tasks]

\* status documents as the REST API reports them
StatusSamples ==
    { Status(<<"R", "U", "N", "N", "I", "N", "G">>,
             << Task(0, <<"R", "U", "N", "N", "I", "N", "G">>) >>),
      Status(<<"R", "u", "n", "n", "i", "n", "g">>, << >>),
      Status(<<"F", "A", "I", "L", "E", "D">>,
             << Task(0, <<"R", "U", "N", "N", "I", "N", "G">>),
                Task(1, <<"F", "A", "I", "L", "E", "D">>) >>),
      Status(<<"P", "A", "U", "S", "E", "D">>,
             << Task(0, <<"p", "a", "u", "s", "e", "d">>) >>),
      Status(<<"U", "N", "A", "S", "S", "I", "G", "N", "E", "D">>,
             << Task(3, <<"U", "N", "A", "S", "S", "I", "G", "N", "E", "D">>) >>),
      Status(<<"R", "E", "S", "T", "A", "R", "T", "I", "N", "G">>,
             << Task(0, <<"D", "E", "S", "T", "R", "O", "Y", "E", "D">>) >>) }

\* every cluster of at most MaxConnectors connectors
Clusters ==
    UNION { [names -> StatusSamples] : names \in SUBSET ConnectorNames }

\* the clusters of the concurrent specification: no connector, or one
\* RUNNING connector with one RUNNING task
SmallClusters ==
    { << >>,
      [n \in {1} |-> Status(<<"R", "U", "N", "N", "I", "N", "G">>,
                            << Task(0, <<"R", "U", "N", "N", "I", "N", "G">>) >>)] }

\* values of KAFKA_CONNECT_URLS
EnvSamples ==
    { Unset,
      << >>,
      <<" ">> \o HTTP \o <<"a", "/", ",", " ">> \o HTTPS \o <<"b", ":", "1", "/", "/", ",">> }

\* the letters of the composed host names
HostChars == {"h", "t", "p", "a"}

\* host names
Hosts ==
    UNION { [1..n -> HostChars] : n \in 1..MaxHostLen }
        \cup { <<"h", "o", "s", "t">>, <<"h", "t", "t", "p">>,
               <<"h", "t", "t", "p", "s">> }

\* nothing, or a colon and a port number
Ports == { << >>, <<":", "1">>, <<":", "1", "2", "3", "4">> }

\* the parts of a URL: a scheme, a host, a port and trailing slashes
UrlParts ==
    [scheme : {HTTP, HTTPS}, host : Hosts, port : Ports, slashes : 0..MaxSlashes]

Url(u) == u.scheme \o u.host \o u.port \o [k \in 1..u.slashes |-> "/"]

\* values of KAFKA_CONNECT_URLS that name one such URL
UrlEnvs == { Url(u) : u \in UrlParts }

\* HashMap::into_keys().collect(): the keys in an arbitrary order
Orders(S) ==
    { s \in [1..Cardinality(S) -> S] :
        \A a, b \in 1..Cardinality(S) : a # b => s[a] # s[b] }

(***************************************************************************)
(* State.                                                                  *)
(***************************************************************************)
\* main, and the task main spawns to run scrape_loop
Procs == {"main", "loop"}

\* the tasks axum runs for the requests being served
Handlers == 1..NumHandlers

VARIABLES
    kafka_connect_urls, \* the environment variable KAFKA_CONNECT_URLS
    connect_urls,  \* config.connect_urls
    upstream,      \* the cluster behind each configured URL
    pc,            \* where main and the scrape loop are
    sc,            \* the locals of scrape_all and scrape_connect, per process
    cache,         \* the String inside the RwLock
    writer,        \* the process holding the write lock, or "none"
    readers,       \* the handlers holding the read lock
    hpc,           \* where each handler is
    resp,          \* the String a /metrics handler has cloned
    committed,     \* history: the value of the last completed cache write
    written,       \* history: some scrape cycle has written the cache
    clock,         \* the time, in ticks
    began,         \* history: when each process began its latest cycle
    ended,         \* history: when each process ended its latest cache write
    lasted         \* history: how long the latest finished cycle of each took

vars == << kafka_connect_urls, connect_urls, upstream, pc, sc, cache, writer, readers, hpc, resp,
           committed, written, clock, began, ended, lasted >>

\* a String whose buffer has been dropped: what the cache holds between the
\* drop of the old value and the move of the new one in  *guard = metrics
Freed == << Line("<freed>", NoId, NoId, <<>>, <<>>, 0) >>

\* any value that is not a whole exposition: what reading a String under
\* replacement yields
Torn == << Line("<torn>", NoId, NoId, <<>>, <<>>, 0) >>

\* what scrape_connect's locals hold before an endpoint is scraped
NoEndpoint ==
    [connector_names |-> <<>>, pos |-> 1, total |-> 0, running |-> 0,
     failed |-> 0, lines |-> <<>>, obtained |-> <<>>, skipped |-> {}]

\* the locals at the start of scrape_all; results is the history of what
\* each endpoint of the cycle answered, requests the history of the requests
\* the cycle has sent (how often each), writes the number of values it has
\* stored in the cache
Fresh ==
    [i |-> 1, all |-> <<>>, results |-> <<>>, metrics |-> <<>>, ep |-> NoEndpoint,
     requests |-> <<>>, writes |-> 0]

\* how often a request occurs in a history of requests
Times(requests, request) ==
    IF request \in DOMAIN requests THEN requests[request] ELSE 0

\* the history of requests after one more request
Send(requests, request) ==
    [r \in DOMAIN requests \cup {request} |->
        Times(requests, r) + Bit(r = request)]

\* GET {base_url}/connectors?expand=status  sent to endpoint k
ListRequest(k) == [endpoint |-> k, name |-> NoId]

\* GET {base_url}/connectors/{name}/status  sent to endpoint k
StatusRequest(k, name) == [endpoint |-> k, name |-> name]

Alive == pc["main"] # "panicked"

base_url(p) == connect_urls[sc[p].i]

(***************************************************************************)
(* scrape_connect and scrape_all, one step per awaited request.            *)
(***************************************************************************)
\* a failed list request that ends the task instead of being rendered
ListFailedEndsTask(p) ==
    /\ Alive
    /\ pc[p] = "list"
    /\ sc[p].i <= Len(connect_urls)
    /\ pc' = [pc EXCEPT ![p] = "ended"]
    /\ UNCHANGED << kafka_connect_urls, connect_urls, upstream, sc, cache,
                    writer, readers, hpc, resp, committed, written, clock,
                    began, ended, lasted >>

\* a failed list request that is sent again
ListFailedRetried(p) ==
    /\ Alive
    /\ pc[p] = "list"
    /\ sc[p].i <= Len(connect_urls)
    /\ sc' = [sc EXCEPT ![p].requests = Send(@, ListRequest(sc[p].i))]
    /\ UNCHANGED << kafka_connect_urls, connect_urls, upstream, pc, cache,
                    writer, readers, hpc, resp, committed, written, clock,
                    began, ended, lasted >>

\* the list request of the next endpoint fails, or its body does not decode
ListFailed(p) ==
    /\ Alive
    /\ pc[p] = "list"
    /\ sc[p].i <= Len(connect_urls)
    /\ sc' = [sc EXCEPT
                ![p].all = Append(@, UnreachableOutput(Instance(base_url(p)))),
                ![p].results = Append(@, [reachable |-> FALSE, listed |-> {},
                                          obtained |-> <<>>, skipped |-> {}]),
                ![p].requests = Send(@, ListRequest(sc[p].i)),
                ![p].i = @ + 1]
    /\ UNCHANGED << kafka_connect_urls, connect_urls, upstream, pc, cache,
                    writer, readers, hpc, resp, committed, written, clock,
                    began, ended, lasted >>

\* the list request succeeds: the names are the keys of the decoded map
ListOk(p) ==
    /\ Alive
    /\ pc[p] = "list"
    /\ sc[p].i <= Len(connect_urls)
    /\ \E names \in Orders(DOMAIN upstream[sc[p].i]) :
          sc' = [sc EXCEPT
                   ![p].ep = [NoEndpoint EXCEPT !.connector_names = names,
                                                !.total = Len(names)],
                   ![p].requests = Send(@, ListRequest(sc[p].i))]
    /\ pc' = [pc EXCEPT ![p] = "status"]
    /\ UNCHANGED << kafka_connect_urls, connect_urls, upstream, cache, writer,
                    readers, hpc, resp, committed, written, clock, began,
                    ended, lasted >>

\* a failed status fetch that renders the connector with every state at 0
StatusFailedEmitsLines(p) ==
    /\ Alive
    /\ pc[p] = "status"
    /\ sc[p].ep.pos <= Len(sc[p].ep.connector_names)
    /\ sc' = [sc EXCEPT
                ![p].ep.skipped = @ \cup {sc[p].ep.connector_names[sc[p].ep.pos]},
                ![p].ep.lines = @ \o ConnectorStateLines(
                                        sc[p].ep.connector_names[sc[p].ep.pos],
                                        <<>>, Instance(base_url(p))),
                ![p].requests = Send(@, StatusRequest(sc[p].i,
                                        sc[p].ep.connector_names[sc[p].ep.pos])),
                ![p].ep.pos = @ + 1]
    /\ UNCHANGED << kafka_connect_urls, connect_urls, upstream, pc, cache,
                    writer, readers, hpc, resp, committed, written, clock,
                    began, ended, lasted >>

\* a failed status fetch that counts the connector as failed
StatusFailedCountsFailed(p) ==
    /\ Alive
    /\ pc[p] = "status"
    /\ sc[p].ep.pos <= Len(sc[p].ep.connector_names)
    /\ sc' = [sc EXCEPT
                ![p].ep.skipped = @ \cup {sc[p].ep.connector_names[sc[p].ep.pos]},
                ![p].requests = Send(@, StatusRequest(sc[p].i,
                                        sc[p].ep.connector_names[sc[p].ep.pos])),
                ![p].ep.failed = @ + 1,
                ![p].ep.pos = @ + 1]
    /\ UNCHANGED << kafka_connect_urls, connect_urls, upstream, pc, cache,
                    writer, readers, hpc, resp, committed, written, clock,
                    began, ended, lasted >>

\* the status request of the next connector fails, or its body does not
\* decode: continue
StatusFailed(p) ==
    /\ Alive
    /\ pc[p] = "status"
    /\ sc[p].ep.pos <= Len(sc[p].ep.connector_names)
    /\ sc' = [sc EXCEPT
                ![p].ep.skipped = @ \cup {sc[p].ep.connector_names[sc[p].ep.pos]},
                ![p].requests = Send(@, StatusRequest(sc[p].i,
                                        sc[p].ep.connector_names[sc[p].ep.pos])),
                ![p].ep.pos = @ + 1]
    /\ UNCHANGED << kafka_connect_urls, connect_urls, upstream, pc, cache,
                    writer, readers, hpc, resp, committed, written, clock,
                    began, ended, lasted >>

\* c_state, the lower-cased connector state of a decoded status
ConnectorState(status) == ToLowercase(status.connector.state)

\* the connector state compared as reported, without lower-casing it
CountStateCaseSensitive(count, status, state) ==
    count + Bit(status.connector.state = state)

\* if c_state == "running" { running += 1; }, and the same for "failed"
CountState(count, status, state) == count + Bit(ConnectorState(status) = state)

\* the lines one decoded status adds
StatusLines(name, status, instance) ==
    ConnectorStateLines(name, ConnectorState(status), instance)
        \o AllTaskLines(name, status.tasks, instance)

\* the status request of the next connector succeeds
StatusOk(p) ==
    /\ Alive
    /\ pc[p] = "status"
    /\ sc[p].ep.pos <= Len(sc[p].ep.connector_names)
    /\ LET name == sc[p].ep.connector_names[sc[p].ep.pos]
           status == upstream[sc[p].i][name]
       IN  sc' = [sc EXCEPT
                    ![p].ep.running = CountState(@, status, RUNNING),
                    ![p].ep.failed = CountState(@, status, FAILED),
                    ![p].ep.lines = @ \o StatusLines(name, status, Instance(base_url(p))),
                    ![p].ep.obtained = Append(@, [name |-> name, status |-> status]),
                    ![p].requests = Send(@, StatusRequest(sc[p].i, name)),
                    ![p].ep.pos = @ + 1]
    /\ UNCHANGED << kafka_connect_urls, connect_urls, upstream, pc, cache,
                    writer, readers, hpc, resp, committed, written, clock,
                    began, ended, lasted >>

\* total counted from the statuses obtained instead of the names listed
ReachableOutputCountingObtained(ep, instance) ==
    JoinLines(ep.lines \o
              SummaryLines(instance, Len(ep.obtained), ep.running, ep.failed))

\* the return value of scrape_connect for a reachable endpoint
ReachableOutput(ep, instance) ==
    JoinLines(ep.lines \o SummaryLines(instance, ep.total, ep.running, ep.failed))

\* a scrape that stores what it has so far after each reachable endpoint
SummaryPublishing(p) ==
    /\ Alive
    /\ pc[p] = "status"
    /\ sc[p].ep.pos > Len(sc[p].ep.connector_names)
    /\ sc' = [sc EXCEPT
                ![p].all = Append(@, ReachableOutput(sc[p].ep, Instance(base_url(p)))),
                ![p].results = Append(@,
                    [reachable |-> TRUE,
                     listed |-> {sc[p].ep.connector_names[k] :
                                    k \in 1..Len(sc[p].ep.connector_names)},
                     obtained |-> sc[p].ep.obtained,
                     skipped |-> sc[p].ep.skipped]),
                ![p].ep = NoEndpoint,
                ![p].writes = @ + 1,
                ![p].i = @ + 1]
    /\ cache' = Join(sc'[p].all)
    /\ committed' = cache'
    /\ pc' = [pc EXCEPT ![p] = "list"]
    /\ UNCHANGED << kafka_connect_urls, connect_urls, upstream, writer,
                    readers, hpc, resp, written, clock, began, ended, lasted >>

\* after the last connector: the summary lines, and scrape_connect returns
Summary(p) ==
    /\ Alive
    /\ pc[p] = "status"
    /\ sc[p].ep.pos > Len(sc[p].ep.connector_names)
    /\ sc' = [sc EXCEPT
                ![p].all = Append(@, ReachableOutput(sc[p].ep, Instance(base_url(p)))),
                ![p].results = Append(@,
                    [reachable |-> TRUE,
                     listed |-> {sc[p].ep.connector_names[k] :
                                    k \in 1..Len(sc[p].ep.connector_names)},
                     obtained |-> sc[p].ep.obtained,
                     skipped |-> sc[p].ep.skipped]),
                ![p].ep = NoEndpoint,
                ![p].i = @ + 1]
    /\ pc' = [pc EXCEPT ![p] = "list"]
    /\ UNCHANGED << kafka_connect_urls, connect_urls, upstream, cache, writer,
                    readers, hpc, resp, committed, written, clock, began,
                    ended, lasted >>

RECURSIVE Reverse(_)
Reverse(s) == IF s = <<>> THEN <<>> ELSE Append(Reverse(Tail(s)), Head(s))

\* the outputs joined last endpoint first
ExpositionReversed(all) == Join(Reverse(all))

\* the return value of scrape_all
Exposition(all) == Join(all)

\* after the last endpoint: scrape_all returns all.join("\n")
JoinAll(p) ==
    /\ Alive
    /\ pc[p] = "list"
    /\ sc[p].i > Len(connect_urls)
    /\ sc' = [sc EXCEPT ![p].metrics = Exposition(sc[p].all)]
    /\ pc' = [pc EXCEPT ![p] = "write"]
    /\ UNCHANGED << kafka_connect_urls, connect_urls, upstream, cache, writer,
                    readers, hpc, resp, committed, written, clock, began,
                    ended, lasted >>

(***************************************************************************)
(* The cache write:  *cache.write().unwrap() = metrics;                    *)
(***************************************************************************)
\* cache.write(): granted when no reader and no writer holds the lock
WriteLock(p) ==
    /\ Alive
    /\ pc[p] = "write"
    /\ writer = "none"
    /\ readers = {}
    /\ writer' = p
    /\ pc' = [pc EXCEPT ![p] = "drop"]
    /\ UNCHANGED << kafka_connect_urls, connect_urls, upstream, sc, cache,
                    readers, hpc, resp, committed, written, clock, began,
                    ended, lasted >>

\* the assignment drops the String the cache held
DropOld(p) ==
    /\ Alive
    /\ pc[p] = "drop"
    /\ cache' = Freed
    /\ pc' = [pc EXCEPT ![p] = "move"]
    /\ UNCHANGED << kafka_connect_urls, connect_urls, upstream, sc, writer,
                    readers, hpc, resp, committed, written, clock, began,
                    ended, lasted >>

\* and moves metrics into its place
MoveNew(p) ==
    /\ Alive
    /\ pc[p] = "move"
    /\ cache' = sc[p].metrics
    /\ committed' = sc[p].metrics
    /\ written' = TRUE
    /\ sc' = [sc EXCEPT ![p].writes = @ + 1]
    /\ pc' = [pc EXCEPT ![p] = "unlock"]
    /\ UNCHANGED << kafka_connect_urls, connect_urls, upstream, writer,
                    readers, hpc, resp, clock, began, ended, lasted >>

\* the outputs of the endpoints kept for the next cycle
WriteUnlockKeepingOutputs(p) ==
    /\ Alive
    /\ pc[p] = "unlock"
    /\ writer' = "none"
    /\ sc' = [sc EXCEPT ![p] = [Fresh EXCEPT !.all = sc[p].all]]
    /\ pc' = [pc EXCEPT ![p] = IF p = "main" THEN "spawn" ELSE "sleep"]
    /\ ended' = [ended EXCEPT ![p] = clock]
    /\ lasted' = [lasted EXCEPT ![p] = clock - began[p]]
    /\ UNCHANGED << kafka_connect_urls, connect_urls, upstream, cache,
                    readers, hpc, resp, committed, written, clock, began >>

\* the write guard is dropped at the end of the statement; main goes on to
\* spawn the loop, the loop goes to sleep
WriteUnlock(p) ==
    /\ Alive
    /\ pc[p] = "unlock"
    /\ writer' = "none"
    /\ sc' = [sc EXCEPT ![p] = Fresh]
    /\ pc' = [pc EXCEPT ![p] = IF p = "main" THEN "spawn" ELSE "sleep"]
    /\ ended' = [ended EXCEPT ![p] = clock]
    /\ lasted' = [lasted EXCEPT ![p] = clock - began[p]]
    /\ UNCHANGED << kafka_connect_urls, connect_urls, upstream, cache,
                    readers, hpc, resp, committed, written, clock, began >>

\* tokio::time::sleep(interval) returns and the loop starts the next cycle
Sleep(p) ==
    /\ Alive
    /\ pc[p] = "sleep"
    /\ pc' = [pc EXCEPT ![p] = "list"]
    /\ began' = [began EXCEPT ![p] = clock]
    /\ UNCHANGED << kafka_connect_urls, connect_urls, upstream, sc, cache,
                    writer, readers, hpc, resp, committed, written, clock,
                    ended, lasted >>

\* an interval timer: the deadline is measured from the start of the cycle
SleepOverFixedRate(p) == clock >= began[p] + Interval

\* a sleep that is skipped after a cycle longer than the interval
SleepOverSkippedWhenLate(p) ==
    clock >= ended[p] + (IF ended[p] - began[p] > Interval THEN 0 ELSE Interval)

\* whether the sleep of p is over: sleep(interval) is called when the write
\* statement is done and lasts the interval
SleepOver(p) == clock >= ended[p] + Interval

\* the sleep as it passes in time
SleepFor(p) == SleepOver(p) /\ Sleep(p)

\* A tick of the clock.  Requests, lock waits and steps of the tasks take
\* any number of ticks, zero included; a sleep that is over is woken before
\* the next tick (the latency of the runtime's timer is below one tick).
Tick ==
    /\ Alive
    /\ clock < MaxClock
    /\ \A p \in Procs : pc[p] = "sleep" => ~SleepOver(p)
    /\ clock' = clock + 1
    /\ UNCHANGED << kafka_connect_urls, connect_urls, upstream, pc, sc, cache,
                    writer, readers, hpc, resp, committed, written, began,
                    ended, lasted >>

(***************************************************************************)
(* main after the initial scrape.                                          *)
(***************************************************************************)
\* tokio::spawn(scrape_loop(..))
Spawn ==
    /\ pc["main"] = "spawn"
    /\ pc' = [pc EXCEPT !["main"] = "bind", !["loop"] = "list"]
    /\ began' = [began EXCEPT !["loop"] = clock]
    /\ UNCHANGED << kafka_connect_urls, connect_urls, upstream, sc, cache,
                    writer, readers, hpc, resp, committed, written, clock,
                    ended, lasted >>

\* TcpListener::bind succeeds and axum::serve starts accepting
BindOk ==
    /\ pc["main"] = "bind"
    /\ pc' = [pc EXCEPT !["main"] = "serve"]
    /\ UNCHANGED << kafka_connect_urls, connect_urls, upstream, sc, cache,
                    writer, readers, hpc, resp, committed, written, clock,
                    began, ended, lasted >>

\* TcpListener::bind fails: main panics and the process ends
BindFailed ==
    /\ pc["main"] = "bind"
    /\ pc' = [pc EXCEPT !["main"] = "panicked"]
    /\ UNCHANGED << kafka_connect_urls, connect_urls, upstream, sc, cache,
                    writer, readers, hpc, resp, committed, written, clock,
                    began, ended, lasted >>

(***************************************************************************)
(* The upstream over time.                                                 *)
(***************************************************************************)
\* p has requests to send in its cycle
Scraping(p) == pc[p] \in {"list", "status"}

\* Connectors are created, deleted or change state in some cluster.  The
\* clusters change between the scrapes; what a change in the middle of a
\* scrape can show to it (a name that is listed and whose status cannot be
\* fetched any more) is among the failures of the requests.
UpstreamChanges ==
    /\ Alive
    /\ \A p \in Procs : ~Scraping(p)
    /\ upstream' \in [1..Len(connect_urls) -> SmallClusters]
    /\ upstream' # upstream
    /\ UNCHANGED << kafka_connect_urls, connect_urls, pc, sc, cache, writer,
                    readers, hpc, resp, committed, written, clock, began,
                    ended, lasted >>

(***************************************************************************)
(* The HTTP handlers.                                                      *)
(***************************************************************************)
\* the HTTP surface opened before the initial scrape
ServingBeforeScrape == Alive

\* whether axum::serve is accepting requests
Serving == pc["main"] = "serve"

\* a /metrics request that starts a scrape when the loop is asleep
AcceptMetricsStartsScrape(h) ==
    /\ Serving
    /\ hpc[h] = "idle"
    /\ hpc' = [hpc EXCEPT ![h] = "read"]
    /\ pc' = [pc EXCEPT !["loop"] = IF @ = "sleep" THEN "list" ELSE @]
    /\ UNCHANGED << kafka_connect_urls, connect_urls, upstream, sc, cache,
                    writer, readers, resp, committed, written, clock, began,
                    ended, lasted >>

\* a GET /metrics request is accepted and metrics_handler starts
AcceptMetrics(h) ==
    /\ Serving
    /\ hpc[h] = "idle"
    /\ hpc' = [hpc EXCEPT ![h] = "read"]
    /\ UNCHANGED << kafka_connect_urls, connect_urls, upstream, pc, sc, cache,
                    writer, readers, resp, committed, written, clock, began,
                    ended, lasted >>

\* a GET /health request is accepted and health_handler starts
AcceptHealth(h) ==
    /\ Serving
    /\ hpc[h] = "idle"
    /\ hpc' = [hpc EXCEPT ![h] = "health"]
    /\ UNCHANGED << kafka_connect_urls, connect_urls, upstream, pc, sc, cache,
                    writer, readers, resp, committed, written, clock, began,
                    ended, lasted >>

\* health_handler returns "ok"
HealthHandler(h) ==
    /\ Alive
    /\ hpc[h] = "health"
    /\ hpc' = [hpc EXCEPT ![h] = "idle"]
    /\ UNCHANGED << kafka_connect_urls, connect_urls, upstream, pc, sc, cache,
                    writer, readers, resp, committed, written, clock, began,
                    ended, lasted >>

\* read access that does not wait for the writer
ReadGrantedDuringWrite == TRUE

\* read access granted while a writer waits for the readers to leave
ReadGrantedWhileWriterWaits == writer = "none"

\* whether read access is granted: no writer holds the lock and none waits
\* for it (the futex RwLock of std queues new readers behind a waiting
\* writer)
ReadGranted == writer = "none" /\ \A p \in Procs : pc[p] # "write"

\* cache.read()
ReadLock(h) ==
    /\ Alive
    /\ hpc[h] = "read"
    /\ ReadGranted
    /\ readers' = readers \cup {h}
    /\ hpc' = [hpc EXCEPT ![h] = "clone"]
    /\ UNCHANGED << kafka_connect_urls, connect_urls, upstream, pc, sc, cache,
                    writer, resp, committed, written, clock, began, ended,
                    lasted >>

\* .clone() of the String behind the guard
Clone(h) ==
    /\ Alive
    /\ hpc[h] = "clone"
    /\ resp' = [resp EXCEPT ![h] = IF cache = Freed THEN Torn ELSE cache]
    /\ hpc' = [hpc EXCEPT ![h] = "respond"]
    /\ UNCHANGED << kafka_connect_urls, connect_urls, upstream, pc, sc, cache,
                    writer, readers, committed, written, clock, began, ended,
                    lasted >>

\* the read guard is dropped and the clone is the response body
Respond(h) ==
    /\ Alive
    /\ hpc[h] = "respond"
    /\ readers' = readers \ {h}
    /\ resp' = [resp EXCEPT ![h] = EmptyString]
    /\ hpc' = [hpc EXCEPT ![h] = "idle"]
    /\ UNCHANGED << kafka_connect_urls, connect_urls, upstream, pc, sc, cache,
                    writer, committed, written, clock, began, ended, lasted >>

(***************************************************************************)
(* Specifications.                                                         *)
(***************************************************************************)
\* the loop spawned before the initial scrape
StartWithLoopSpawned ==
    /\ pc = [p \in Procs |-> "list"]
    /\ sc = [p \in Procs |-> Fresh]
    /\ cache = EmptyString
    /\ writer = "none"
    /\ readers = {}
    /\ hpc = [h \in Handlers |-> "idle"]
    /\ resp = [h \in Handlers |-> EmptyString]
    /\ committed = EmptyString
    /\ written = FALSE
    /\ clock = 0
    /\ began = [p \in Procs |-> 0]
    /\ ended = [p \in Procs |-> 0]
    /\ lasted = [p \in Procs |-> 0]

\* the state after  let cache = Arc::new(RwLock::new(String::new()))
Start ==
    /\ pc = [p \in Procs |-> IF p = "main" THEN "list" ELSE "unspawned"]
    /\ sc = [p \in Procs |-> Fresh]
    /\ cache = EmptyString
    /\ writer = "none"
    /\ readers = {}
    /\ hpc = [h \in Handlers |-> "idle"]
    /\ resp = [h \in Handlers |-> EmptyString]
    /\ committed = EmptyString
    /\ written = FALSE
    /\ clock = 0
    /\ began = [p \in Procs |-> 0]
    /\ ended = [p \in Procs |-> 0]
    /\ lasted = [p \in Procs |-> 0]

Init ==
    /\ kafka_connect_urls \in EnvSamples
    /\ connect_urls = ConnectUrls(kafka_connect_urls)
    /\ upstream \in [1..Len(connect_urls) -> SmallClusters]
    /\ Start

Scrape(p) ==
    \/ ListFailed(p)
    \/ ListOk(p)
    \/ StatusFailed(p)
    \/ StatusOk(p)
    \/ Summary(p)
    \/ JoinAll(p)
    \/ WriteLock(p)
    \/ DropOld(p)
    \/ MoveNew(p)
    \/ WriteUnlock(p)

Handle(h) ==
    \/ AcceptMetrics(h)
    \/ AcceptHealth(h)
    \/ HealthHandler(h)
    \/ ReadLock(h)
    \/ Clone(h)
    \/ Respond(h)

Next ==
    \/ \E p \in Procs : Scrape(p) \/ Sleep(p)
    \/ Spawn
    \/ BindOk
    \/ BindFailed
    \/ \E h \in Handlers : Handle(h)

\* the exporter
Spec == Init /\ [][Next]_vars

\* What the runtime and the upstream guarantee: every task that can take a
\* step takes one (tokio schedules main, the spawned loop and every request
\* task; the sleep ends), every upstream request returns a success or a
\* failure (at the latest by the 10 s timeout of the client), and the lock
\* is granted once it is free.  No request has to arrive.
Fairness ==
    /\ \A p \in Procs : WF_vars(Scrape(p) \/ Sleep(p))
    /\ WF_vars(Spawn \/ BindOk \/ BindFailed)
    /\ \A h \in Handlers :
          WF_vars(HealthHandler(h) \/ ReadLock(h) \/ Clone(h) \/ Respond(h))

FairSpec == Init /\ [][Next]_vars /\ Fairness

\* The hand-over of the lock: a handler that waits in cache.read() is woken
\* when the writer unlocks and has the lock long before the loop, which
\* sleeps the interval first, asks for it again.  Without the clock this is
\* strong fairness of the handler: read access that is free again and again
\* is taken.  The other steps of a handler are enabled until taken, so that
\* strong and weak fairness are the same for them.
LockFairness ==
    /\ \A p \in Procs : WF_vars(Scrape(p) \/ Sleep(p))
    /\ WF_vars(Spawn \/ BindOk \/ BindFailed)
    /\ \A h \in Handlers :
          SF_vars(HealthHandler(h) \/ ReadLock(h) \/ Clone(h) \/ Respond(h))

\* The lock is asked for once per cycle and once per /metrics request,
\* whatever the number of endpoints: the exporter is taken with no endpoint
\* and with the default one.
InitLock ==
    /\ kafka_connect_urls \in {Unset, << >>}
    /\ connect_urls = ConnectUrls(kafka_connect_urls)
    /\ upstream \in [1..Len(connect_urls) -> SmallClusters]
    /\ Start

FairLockSpec == InitLock /\ [][Next]_vars /\ LockFairness

\* The initial scrape of main alone, over every cluster the bounds allow
\* behind the first endpoint and a small cluster behind each other one.
InitScrape ==
    /\ kafka_connect_urls \in EnvSamples
    /\ connect_urls = ConnectUrls(kafka_connect_urls)
    /\ upstream \in [1..Len(connect_urls) -> Clusters]
    /\ \A k \in 2..Len(connect_urls) : upstream[k] \in SmallClusters
    /\ Start

NextScrape == Scrape("main")

SpecScrape == InitScrape /\ [][NextScrape]_vars

\* The exporter in front of clusters that change from one cycle to the next.
NextChanging == Next \/ UpstreamChanges

SpecChanging == Init /\ [][NextChanging]_vars

\* The scrape cycles in time: the clock ticks and the sleep of the loop
\* lasts the interval.  No request arrives: a handler can delay a cycle only
\* at the write lock, and the ticks a cycle takes are arbitrary already.
NextTimed ==
    \/ Tick
    \/ \E p \in Procs : Scrape(p) \/ SleepFor(p)
    \/ Spawn
    \/ BindOk
    \/ BindFailed

SpecTimed == Init /\ [][NextTimed]_vars

\* The initial scrape of main for every URL composed of a scheme, a host, a
\* port and trailing slashes.
InitConfig ==
    /\ kafka_connect_urls \in UrlEnvs
    /\ connect_urls = ConnectUrls(kafka_connect_urls)
    /\ upstream \in [1..Len(connect_urls) -> SmallClusters]
    /\ Start

SpecConfig == InitConfig /\ [][NextScrape]_vars

(***************************************************************************)
(* Reading rendered text.                                                  *)
(***************************************************************************)
\* the pieces of a text from position from on: a piece ends before the next
\* newline, the last one with the text
RECURSIVE SplitNL(_, _)
SplitNL(text, from) ==
    IF \A n \in from..Len(text) : text[n] # NL
    THEN << SubSeq(text, from, Len(text)) >>
    ELSE LET next == CHOOSE n \in from..Len(text) :
                         /\ text[n] = NL
                         /\ \A m \in from..(n - 1) : text[m] # NL
         IN  << SubSeq(text, from, next - 1) >> \o SplitNL(text, next + 1)

\* The lines of a text: the pieces between its newlines; a newline that ends
\* the text ends its last line and starts no further one.  An empty line is
\* the piece << >>.
TextLines(text) ==
    LET pieces == SplitNL(text, 1)
    IN  IF text = <<>> THEN <<>>
        ELSE IF pieces[Len(pieces)] = <<>> THEN SubSeq(pieces, 1, Len(pieces) - 1)
        ELSE pieces

IsLine(a) == a # NL

\* the metric lines of a text, in order
Atoms(text) == SelectSeq(text, IsLine)

\* the processes whose scrape_all has returned and whose cache write is not
\* yet over
MetricsReady(p) == pc[p] \in {"write", "drop", "move", "unlock"}

(***************************************************************************)
(* C1.  A /metrics reader obtains the initial empty string or the complete *)
(* exposition of exactly one completed scrape cycle: the value of the last *)
(* completed cache write, never a value under replacement, and one that    *)
(* carries one kafka_connect_up line per configured endpoint, in order.    *)
(***************************************************************************)
IsUp(a) == a.metric = "kafka_connect_up"

UpInstances(text) ==
    LET ups == SelectSeq(text, IsUp) IN [k \in 1..Len(ups) |-> ups[k].instance]

WholeExposition(text) ==
    UpInstances(text) = [k \in 1..Len(connect_urls) |-> Instance(connect_urls[k])]

C1_ReaderSeesOneWholeCycle ==
    \A h \in Handlers :
        hpc[h] = "respond" =>
            /\ resp[h] = committed
            /\ resp[h] # Torn
            /\ resp[h] = EmptyString \/ WholeExposition(resp[h])

\* a handler holds its clone while the loop is in the middle of a cycle
C1_Witness ==
    \E h \in Handlers :
        /\ hpc[h] = "respond"
        /\ resp[h] # EmptyString
        /\ pc["loop"] = "status"
        /\ sc["loop"].all # <<>>

(***************************************************************************)
(* C2.  An endpoint whose list call fails contributes exactly one line to  *)
(* the exposition, kafka_connect_up{instance} 0, and no other line, an     *)
(* empty line included; the other endpoints contribute their own lines.    *)
(***************************************************************************)
ContributedLines(p, k) ==
    IF sc[p].results[k].reachable
    THEN TextLines(sc[p].all[k])
    ELSE << << UpLine(Instance(connect_urls[k]), 0) >> >>

C2_UnreachableIsOneLine ==
    \A p \in Procs :
        MetricsReady(p) =>
            TextLines(sc[p].metrics) =
                Flatten([k \in 1..Len(sc[p].all) |-> ContributedLines(p, k)])

(***************************************************************************)
(* C7.  As stated: every /metrics response is non-empty.                   *)
(***************************************************************************)
C7_ResponseNeverEmpty ==
    \A h \in Handlers : hpc[h] = "respond" => resp[h] # EmptyString

(***************************************************************************)
(* C7, amended.  A scrape cycle has completed and written the cache before *)
(* any request is accepted, so every /metrics response is the value of a   *)
(* completed cache write; it is non-empty when at least one endpoint is    *)
(* configured.                                                             *)
(***************************************************************************)
C7_FirstScrapeBeforeServing ==
    \A h \in Handlers :
        /\ hpc[h] # "idle" => written
        /\ hpc[h] = "respond" =>
              /\ resp[h] = committed
              /\ connect_urls # <<>> => resp[h] # EmptyString

\* a response is cloned before the loop has started its first request
C7_Witness ==
    \E h \in Handlers :
        /\ hpc[h] = "respond"
        /\ connect_urls # <<>>
        /\ resp[h] # EmptyString
        /\ pc["loop"] = "list"
        /\ sc["loop"] = Fresh

(***************************************************************************)
(* C8.  The exposition holds the outputs of the endpoints in the order the *)
(* endpoints are configured, one output per endpoint, and what an endpoint *)
(* contributes is its own: labelled with its own instance, naming only     *)
(* connectors of its own cluster, with its own reachability.               *)
(***************************************************************************)
OwnOutput(p, k) ==
    LET out == Atoms(sc[p].all[k])
    IN  /\ \A n \in 1..Len(out) :
              /\ out[n].instance = Instance(connect_urls[k])
              /\ out[n].connector # NoId => out[n].connector \in DOMAIN upstream[k]
              /\ IsUp(out[n]) => out[n].value = Bit(sc[p].results[k].reachable)
        /\ Len(SelectSeq(out, IsUp)) = 1

C8_OutputsInConfiguredOrder ==
    \A p \in Procs :
        MetricsReady(p) =>
            /\ Len(sc[p].all) = Len(connect_urls)
            /\ Atoms(sc[p].metrics) =
                  Flatten([k \in 1..Len(sc[p].all) |-> Atoms(sc[p].all[k])])
            /\ \A k \in 1..Len(sc[p].all) : OwnOutput(p, k)

\* two endpoints, one of them unreachable, the other reachable with a
\* connector
C8_Witness ==
    \E p \in Procs :
        /\ MetricsReady(p)
        /\ Len(connect_urls) = 2
        /\ ~sc[p].results[1].reachable
        /\ sc[p].results[2].reachable
        /\ sc[p].results[2].obtained # <<>>

(***************************************************************************)
(* The endpoints a process has finished in the current cycle.              *)
(***************************************************************************)
\* the endpoints of p's cycle whose list call succeeded
Reached(p) == {k \in 1..Len(sc[p].all) : sc[p].results[k].reachable}

Metric(text, metric) ==
    LET Is(a) == a.metric = metric IN SelectSeq(text, Is)

ConnectorLines(text, name) ==
    LET Is(a) == a.metric = "kafka_connect_connector_state" /\ a.connector = name
    IN  SelectSeq(text, Is)

TaskLines(text, name, id) ==
    LET Is(a) == /\ a.metric = "kafka_connect_connector_task_state"
                 /\ a.connector = name
                 /\ a.task = id
    IN  SelectSeq(text, Is)

Ones(ls) == Cardinality({n \in 1..Len(ls) : ls[n].value = 1})

\* the reported state, lower-cased, is one of the four enumerated states
KnownState(state) == \E k \in 1..Len(States) : ToLowercase(state) = States[k]

\* four lines, one per enumerated state in order, each 0 or 1, one of them 1
\* exactly when the reported state is an enumerated one
OneHot(ls, state) ==
    /\ Len(ls) = 4
    /\ [n \in 1..Len(ls) |-> ls[n].state] = States
    /\ \A n \in 1..Len(ls) : ls[n].value \in {0, 1}
    /\ Ones(ls) = Bit(KnownState(state))

(***************************************************************************)
(* C3.  For every connector whose status was obtained and for every task   *)
(* of it there are exactly four per-state lines; exactly one of them is 1  *)
(* when the lower-cased reported state is an enumerated state, none is 1   *)
(* otherwise.                                                              *)
(***************************************************************************)
C3_StateLinesOneHot ==
    \A p \in Procs : \A k \in Reached(p) :
        LET out == sc[p].all[k]
            got == sc[p].results[k].obtained
        IN  \A j \in 1..Len(got) :
                /\ OneHot(ConnectorLines(out, got[j].name),
                          got[j].status.connector.state)
                /\ \A t \in 1..Len(got[j].status.tasks) :
                      OneHot(TaskLines(out, got[j].name, got[j].status.tasks[t].id),
                             got[j].status.tasks[t].state)

\* one endpoint rendered a connector in an enumerated state with a task and
\* a connector in a state outside the enumeration
C3_Witness ==
    \E p \in Procs : \E k \in Reached(p) :
        LET got == sc[p].results[k].obtained
        IN  \E a, b \in 1..Len(got) :
                /\ KnownState(got[a].status.connector.state)
                /\ got[a].status.connector.state # ToLowercase(got[a].status.connector.state)
                /\ got[a].status.tasks # <<>>
                /\ ~KnownState(got[b].status.connector.state)

(***************************************************************************)
(* C4.  kafka_connect_connectors_total is the number of connector names    *)
(* the list call returned, whatever the status fetches did.                *)
(***************************************************************************)
C4_TotalCountsListedNames ==
    \A p \in Procs : \A k \in Reached(p) :
        LET total == Metric(sc[p].all[k], "kafka_connect_connectors_total")
        IN  /\ sc[p].results[k].listed = DOMAIN upstream[k]
            /\ Len(total) = 1
            /\ total[1].value = Cardinality(sc[p].results[k].listed)

\* two names listed, one status obtained, one status fetch failed
C4_Witness ==
    \E p \in Procs : \E k \in Reached(p) :
        /\ Cardinality(sc[p].results[k].listed) = 2
        /\ Cardinality(sc[p].results[k].skipped) = 1
        /\ Len(sc[p].results[k].obtained) = 1
        /\ Metric(sc[p].all[k], "kafka_connect_connectors_total")[1].value = 2

(***************************************************************************)
(* C5.  kafka_connect_connectors_running is the number of connectors whose *)
(* obtained connector-level state is "running" up to case, and             *)
(* kafka_connect_connectors_failed the number of those whose state is      *)
(* "failed" up to case; task states and failed fetches count for nothing.  *)
(***************************************************************************)
EqualsIgnoreCase(a, b) ==
    /\ Len(a) = Len(b)
    /\ \A n \in 1..Len(a) : LowerOf(a[n]) = LowerOf(b[n])

InState(got, state) ==
    {j \in 1..Len(got) : EqualsIgnoreCase(got[j].status.connector.state, state)}

C5_RunningFailedCountConnectors ==
    \A p \in Procs : \A k \in Reached(p) :
        LET running == Metric(sc[p].all[k], "kafka_connect_connectors_running")
            failed == Metric(sc[p].all[k], "kafka_connect_connectors_failed")
            got == sc[p].results[k].obtained
        IN  /\ Len(running) = 1
            /\ running[1].value = Cardinality(InState(got, RUNNING))
            /\ Len(failed) = 1
            /\ failed[1].value = Cardinality(InState(got, FAILED))

\* a FAILED connector with a RUNNING task was obtained, another fetch
\* failed: running 0, failed 1
C5_Witness ==
    \E p \in Procs : \E k \in Reached(p) :
        LET got == sc[p].results[k].obtained
        IN  /\ sc[p].results[k].skipped # {}
            /\ Len(got) = 1
            /\ EqualsIgnoreCase(got[1].status.connector.state, FAILED)
            /\ \E t \in 1..Len(got[1].status.tasks) :
                  EqualsIgnoreCase(got[1].status.tasks[t].state, RUNNING)
            /\ Metric(sc[p].all[k], "kafka_connect_connectors_running")[1].value = 0
            /\ Metric(sc[p].all[k], "kafka_connect_connectors_failed")[1].value = 1

\* the metric names of the last four lines of an output
LastFourMetrics(text) ==
    LET ls == Atoms(text)
    IN  IF Len(ls) < 4 THEN <<>>
        ELSE [n \in 1..4 |-> ls[Len(ls) - 4 + n].metric]

SummaryMetrics ==
    << "kafka_connect_up", "kafka_connect_connectors_total",
       "kafka_connect_connectors_running", "kafka_connect_connectors_failed" >>

(***************************************************************************)
(* C6.  When a connector's status fetch fails, no line names that          *)
(* connector, every other listed connector is fetched and rendered, and    *)
(* the endpoint ends with its four summary lines, kafka_connect_up at 1.   *)
(***************************************************************************)
C6_FailedFetchSkipsOneConnector ==
    \A p \in Procs : \A k \in Reached(p) :
        LET out == sc[p].all[k]
            res == sc[p].results[k]
            names == {res.obtained[j].name : j \in 1..Len(res.obtained)}
        IN  res.skipped # {} =>
                /\ \A n \in 1..Len(out) : out[n].connector \notin res.skipped
                /\ names = res.listed \ res.skipped
                /\ \A name \in names : Len(ConnectorLines(out, name)) = 4
                /\ LastFourMetrics(out) = SummaryMetrics
                /\ Metric(out, "kafka_connect_up") =
                      << UpLine(Instance(connect_urls[k]), 1) >>

\* the first of two fetches failed and the second was rendered
C6_Witness ==
    \E p \in Procs : \E k \in Reached(p) :
        /\ sc[p].results[k].skipped = {1}
        /\ Len(sc[p].results[k].obtained) = 1
        /\ sc[p].results[k].obtained[1].name = 2
        /\ sc[p].results[k].obtained[1].status.tasks # <<>>

(***************************************************************************)
(* C9.  The output of a reachable endpoint is, for each connector whose    *)
(* status was obtained, in the order obtained: its four connector-state    *)
(* lines, then four task-state lines per task in the order of the tasks;   *)
(* after all connectors the four summary lines up = 1, total, running,     *)
(* failed: 4*C + 4*T + 4 lines for C connectors carrying T tasks.  One     *)
(* running connector with one running task gives 12 lines, and with a      *)
(* second, unreachable endpoint the exposition has 13 lines.               *)
(***************************************************************************)
BlockLen(entry) == 4 + 4 * Len(entry.status.tasks)

RECURSIVE LinesOf(_)
LinesOf(got) == IF got = <<>> THEN 0 ELSE BlockLen(Head(got)) + LinesOf(Tail(got))

RECURSIVE TasksOf(_)
TasksOf(got) ==
    IF got = <<>> THEN 0 ELSE Len(Head(got).status.tasks) + TasksOf(Tail(got))

\* the lines of the j-th obtained connector start after offset Offset(got, j)
Offset(got, j) == LinesOf(SubSeq(got, 1, j - 1))

ConnectorBlock(ls, off, entry) ==
    /\ \A s \in 1..4 :
          /\ ls[off + s][1].metric = "kafka_connect_connector_state"
          /\ ls[off + s][1].connector = entry.name
          /\ ls[off + s][1].task = NoId
          /\ ls[off + s][1].state = States[s]
    /\ \A t \in 1..Len(entry.status.tasks) : \A s \in 1..4 :
          /\ ls[off + 4 * t + s][1].metric = "kafka_connect_connector_task_state"
          /\ ls[off + 4 * t + s][1].connector = entry.name
          /\ ls[off + 4 * t + s][1].task = entry.status.tasks[t].id
          /\ ls[off + 4 * t + s][1].state = States[s]

ReachableLayout(out, got) ==
    LET ls == TextLines(out)
        n == 4 * Len(got) + 4 * TasksOf(got)
    IN  /\ Len(ls) = n + 4
        /\ \A k \in 1..Len(ls) : Len(ls[k]) = 1
        /\ \A j \in 1..Len(got) : ConnectorBlock(ls, Offset(got, j), got[j])
        /\ [k \in 1..4 |-> ls[n + k][1].metric] = SummaryMetrics
        /\ ls[n + 1][1].value = 1

\* endpoint 1 answered with one running connector carrying one running
\* task, endpoint 2 did not answer
SpecScenario(p) ==
    /\ MetricsReady(p)
    /\ Len(connect_urls) = 2
    /\ sc[p].results[1].reachable
    /\ Len(sc[p].results[1].obtained) = 1
    /\ sc[p].results[1].skipped = {}
    /\ EqualsIgnoreCase(sc[p].results[1].obtained[1].status.connector.state, RUNNING)
    /\ Len(sc[p].results[1].obtained[1].status.tasks) = 1
    /\ EqualsIgnoreCase(sc[p].results[1].obtained[1].status.tasks[1].state, RUNNING)
    /\ ~sc[p].results[2].reachable

C9_ReachableOutputLayout ==
    \A p \in Procs :
        /\ \A k \in Reached(p) :
              ReachableLayout(sc[p].all[k], sc[p].results[k].obtained)
        /\ SpecScenario(p) =>
              /\ Len(TextLines(sc[p].all[1])) = 12
              /\ Len(TextLines(sc[p].metrics)) = 13
              /\ TextLines(sc[p].metrics)[13] =
                    << UpLine(Instance(connect_urls[2]), 0) >>

C9_Witness ==
    \E p \in Procs :
        /\ SpecScenario(p)
        /\ Len(TextLines(sc[p].metrics)) = 13

(***************************************************************************)
(* C10.  Whatever list and status requests fail, the scrape loop completes *)
(* cache writes infinitely often (so the initial scrape ended, every cycle *)
(* of the loop ends with its write and another cycle follows), unless the  *)
(* process ended at startup because the listener could not be bound.       *)
(***************************************************************************)
\* p has stored the exposition of a cycle and is about to release the lock
CycleWritten(p) == pc[p] = "unlock"

C10_CyclesNeverStop == []<>(CycleWritten("loop") \/ ~Alive)

\* the loop completes the write of a cycle in which one endpoint's list
\* call failed and a status fetch of the other failed, with requests served
C10_Witness ==
    /\ CycleWritten("loop")
    /\ \E k \in 1..Len(sc["loop"].results) : ~sc["loop"].results[k].reachable
    /\ \E k \in Reached("loop") : sc["loop"].results[k].skipped # {}
    /\ \E h \in Handlers : hpc[h] = "read"

(***************************************************************************)
(* C11.  A step of a request handler starts no scrape, sends no upstream   *)
(* request and leaves the cache value alone: it changes neither the        *)
(* position nor the locals (requests sent included) of main or the loop,   *)
(* nor the cache.  A handler that has started can always take its next     *)
(* step, except a /metrics handler that waits for read access while a      *)
(* writer holds the lock or waits for it.                                  *)
(***************************************************************************)
HandlerStep == hpc' # hpc

HandlerCanStep(h) ==
    /\ hpc[h] = "health" => ENABLED HealthHandler(h)
    /\ hpc[h] = "clone" => ENABLED Clone(h)
    /\ hpc[h] = "respond" => ENABLED Respond(h)
    /\ hpc[h] = "read" =>
          \/ ENABLED ReadLock(h)
          \/ writer # "none"
          \/ \E p \in Procs : pc[p] = "write"

C11_HandlersOnlyReadCache ==
    /\ [](\A h \in Handlers : HandlerCanStep(h))
    /\ [][HandlerStep =>
            /\ pc' = pc
            /\ sc' = sc
            /\ cache' = cache
            /\ committed' = committed
            /\ writer' = writer
            /\ upstream' = upstream]_vars

\* a /metrics handler has cloned the cache and a /health handler runs while
\* the loop sleeps, and while the loop is in the middle of an endpoint
C11_Witness ==
    /\ \E h, g \in Handlers : hpc[h] = "respond" /\ hpc[g] = "health"
    /\ pc["loop"] \in {"sleep", "status"}

(***************************************************************************)
(* The steps that start a cycle of the loop.                               *)
(***************************************************************************)
\* the sleep of the loop ends and its next cycle starts
LoopWakes == pc["loop"] = "sleep" /\ pc'["loop"] = "list"

\* the loop is spawned and its first cycle starts
LoopStarts == pc["loop"] = "unspawned" /\ pc'["loop"] # "unspawned"

\* the cycle p finished last took longer than the interval
Overran(p) == lasted[p] > Interval

(***************************************************************************)
(* C12.  As stated: after a cycle that took longer than the interval the   *)
(* next cycle starts at the moment that cycle finished, with no idle gap.  *)
(***************************************************************************)
C12_NoGapAfterOverrun ==
    [][LoopWakes /\ Overran("loop") => began'["loop"] = ended["loop"]]_vars

(***************************************************************************)
(* C12, amended.  After a cycle that took longer than the interval the     *)
(* next cycle starts one full interval after that cycle's cache write: the *)
(* loop sleeps the interval after every cycle, an overrunning one too.     *)
(***************************************************************************)
C12_FullSleepAfterOverrun ==
    [][LoopWakes /\ Overran("loop") =>
            began'["loop"] = ended["loop"] + Interval]_vars

\* the loop has started the cycle after one that overran
C12_Witness ==
    /\ pc["loop"] = "list"
    /\ sc["loop"] = Fresh
    /\ Overran("loop")
    /\ began["loop"] = ended["loop"] + Interval

(***************************************************************************)
(* C13.  As stated: a cycle that finished within the interval is followed  *)
(* by the next cycle one interval after its start, and the first cycle of  *)
(* the loop starts one interval after the start of the initial scrape.     *)
(***************************************************************************)
C13_FixedRateFromStart ==
    /\ [][LoopWakes /\ ~Overran("loop") =>
            began'["loop"] = began["loop"] + Interval]_vars
    /\ [][LoopStarts /\ ~Overran("main") =>
            began'["loop"] = began["main"] + Interval]_vars

(***************************************************************************)
(* C13, amended.  The first cycle of the loop starts when main spawns the  *)
(* loop, right after the cache write of the initial scrape and without     *)
(* waiting for the interval; every later cycle starts one interval after   *)
(* the cache write of the cycle before it, so that a cycle which took d    *)
(* starts d + interval before the next.                                    *)
(***************************************************************************)
C13_FixedDelayFromWrite ==
    /\ [][LoopWakes =>
            /\ began'["loop"] = ended["loop"] + Interval
            /\ began'["loop"] = began["loop"] + lasted["loop"] + Interval]_vars
    /\ [][LoopStarts =>
            /\ pc["main"] = "spawn"
            /\ pc'["loop"] = "list"
            /\ began'["loop"] = clock
            /\ clock >= ended["main"]]_vars

\* after a cycle that took exactly the interval the loop has slept and
\* started the next one; the initial scrape had taken no time
C13_Witness ==
    /\ pc["loop"] = "list"
    /\ sc["loop"] = Fresh
    /\ lasted["loop"] = Interval
    /\ began["loop"] = ended["loop"] + Interval
    /\ lasted["main"] = 0

(***************************************************************************)
(* C14.  For a configured URL made of http:// or https://, a host, an      *)
(* optional port and any trailing slashes, the base URL is scheme, host    *)
(* and port, and the instance label of every line of a complete scrape of  *)
(* it is host and port exactly.                                            *)
(***************************************************************************)
HostPort(u) == u.host \o u.port

Labels(p) ==
    { sc[p].ep.lines[n].instance : n \in 1..Len(sc[p].ep.lines) }
        \cup UNION { { Atoms(sc[p].all[k])[n].instance :
                          n \in 1..Len(Atoms(sc[p].all[k])) } :
                     k \in 1..Len(sc[p].all) }
        \cup { Atoms(sc[p].metrics)[n].instance :
                  n \in 1..Len(Atoms(sc[p].metrics)) }

\* the scrape of p is complete and its exposition is in the cache
Stored(p) == pc[p] = "unlock"

C14_InstanceIsHostAndPort ==
    \A p \in Procs :
        Stored(p) =>
            \A u \in UrlParts :
                kafka_connect_urls = Url(u) =>
                    /\ connect_urls = << u.scheme \o HostPort(u) >>
                    /\ Labels(p) = { HostPort(u) }

\* https://host:1234/ has been scraped and its lines carry host:1234
C14_Witness ==
    /\ kafka_connect_urls =
          HTTPS \o <<"h", "o", "s", "t", ":", "1", "2", "3", "4", "/">>
    /\ Stored("main")
    /\ sc["main"].results[1].obtained # <<>>
    /\ Labels("main") = { <<"h", "o", "s", "t", ":", "1", "2", "3", "4">> }

(***************************************************************************)
(* C15.  The cache changes only in the write statement of main or of the   *)
(* loop, under the write lock and after the cycle has processed every      *)
(* configured endpoint; the value stored is the whole exposition of that   *)
(* cycle, and a cycle stores exactly once before it ends.  From the start  *)
(* of a cycle to its write the cache holds the value of the last completed *)
(* write (the empty string before the first), and that is what a reader    *)
(* obtains meanwhile.                                                      *)
(***************************************************************************)
\* p is in a cycle and has not reached the assignment to the cache
BeforeWrite(p) == pc[p] \in {"list", "status", "write"}

\* p is in the middle of the assignment to the cache
Assigning(p) == writer = p /\ pc[p] \in {"drop", "move"}

\* p has processed every configured endpoint
AllProcessed(p) ==
    /\ Len(sc[p].all) = Len(connect_urls)
    /\ Len(sc[p].results) = Len(connect_urls)
    /\ sc[p].metrics = Join(sc[p].all)

KeepsPrevious(p) ==
    BeforeWrite(p) =>
        /\ sc[p].writes = 0
        /\ cache = committed
        /\ ~written => cache = EmptyString
        /\ \A h \in Handlers : hpc[h] = "respond" => resp[h] = committed

C15_OneWholeWritePerCycle ==
    /\ [](\A p \in Procs : KeepsPrevious(p))
    /\ [][cache' # cache =>
            \E p \in Procs :
                /\ Assigning(p)
                /\ AllProcessed(p)
                /\ cache' \in {Freed, sc[p].metrics}]_vars
    /\ [][committed' # committed =>
            \E p \in Procs : Assigning(p) /\ committed' = sc[p].metrics]_vars
    /\ [][\A p \in Procs :
            pc[p] = "unlock" /\ pc'[p] # "unlock" => sc[p].writes = 1]_vars

\* the loop has a new exposition ready and waits for the lock while a reader
\* holds the previous, different one
C15_Witness ==
    /\ pc["loop"] = "write"
    /\ cache = committed
    /\ cache # EmptyString
    /\ sc["loop"].metrics # cache
    /\ \E h \in Handlers : hpc[h] = "respond" /\ resp[h] = cache

(***************************************************************************)
(* C16.  At most one scrape cycle is in progress at any time.  The loop    *)
(* exists only after the initial scrape of main has written the cache; a   *)
(* cycle starts only when no other is in progress and not before the cache *)
(* write of every earlier cycle has ended; a cycle that writes the cache   *)
(* is the only one in progress and began after the write of every earlier  *)
(* one: the writes follow the order of the cycles.                         *)
(***************************************************************************)
\* p is between the start of a cycle and the end of its cache write
InCycle(p) == pc[p] \in {"list", "status", "write", "drop", "move", "unlock"}

OneCycleAtATime ==
    /\ \A p, q \in Procs : InCycle(p) /\ InCycle(q) => p = q
    /\ pc["loop"] # "unspawned" =>
          /\ written
          /\ ~InCycle("main")
          /\ began["loop"] >= ended["main"]

CycleStarts(p) == ~InCycle(p) /\ InCycle(p)'

CycleWrites(p) == pc[p] = "move" /\ pc'[p] = "unlock"

C16_CyclesNeverOverlap ==
    /\ []OneCycleAtATime
    /\ [][\A p \in Procs :
            CycleStarts(p) =>
                /\ p = "loop"
                /\ pc[p] \in {"unspawned", "sleep"}
                /\ written
                /\ began'[p] = clock
                /\ \A q \in Procs : ~InCycle(q) /\ clock >= ended[q]]_vars
    /\ [][\A p \in Procs :
            CycleWrites(p) =>
                \A q \in Procs \ {p} : ~InCycle(q) /\ began[p] >= ended[q]]_vars

\* the loop has written the cache in a cycle that began after the write of
\* its previous cycle, which had taken time
C16_Witness ==
    /\ pc["loop"] = "unlock"
    /\ lasted["loop"] > 0
    /\ began["loop"] > ended["loop"]
    /\ ended["loop"] > ended["main"]

(***************************************************************************)
(* C17.  A cycle sends no request twice.  When its scrape is over, every   *)
(* configured endpoint has received exactly one list request, every name a *)
(* successful list call returned exactly one status request, whether that  *)
(* request succeeded or failed, and nothing else; an endpoint whose list   *)
(* call failed has received no status request.                             *)
(***************************************************************************)
Sent(p, request) == Times(sc[p].requests, request)

\* the names endpoint k has received a status request for
StatusRequested(p, k) ==
    { r.name : r \in { q \in DOMAIN sc[p].requests :
                          q.endpoint = k /\ q.name # NoId } }

RequestsOfCycle(p) ==
    /\ \A k \in 1..Len(connect_urls) :
          /\ Sent(p, ListRequest(k)) = 1
          /\ StatusRequested(p, k) = sc[p].results[k].listed
          /\ sc[p].results[k].listed =
                sc[p].results[k].skipped \cup
                    { sc[p].results[k].obtained[j].name :
                        j \in 1..Len(sc[p].results[k].obtained) }
          /\ ~sc[p].results[k].reachable => StatusRequested(p, k) = {}
    /\ \A r \in DOMAIN sc[p].requests : r.endpoint \in 1..Len(connect_urls)

C17_NoRequestSentTwice ==
    \A p \in Procs :
        /\ \A r \in DOMAIN sc[p].requests : Sent(p, r) = 1
        /\ MetricsReady(p) => RequestsOfCycle(p)

\* a cycle over two endpoints: the list call of one failed; the other listed
\* two names, one status fetch failed and one succeeded: four requests
C17_Witness ==
    \E p \in Procs :
        /\ MetricsReady(p)
        /\ Cardinality(DOMAIN sc[p].requests) = 4
        /\ \E k \in 1..Len(connect_urls) : ~sc[p].results[k].reachable
        /\ \E k \in Reached(p) :
              /\ Cardinality(sc[p].results[k].skipped) = 1
              /\ Len(sc[p].results[k].obtained) = 1

(***************************************************************************)
(* C18.  The exposition a cycle writes is determined by the endpoint list  *)
(* and by what the requests of that cycle answered; neither the previous   *)
(* cache value nor an earlier cycle has a part in it.  The lines of an     *)
(* endpoint name only connectors its list call returned in this cycle, so  *)
(* a connector that is no longer listed has no line; an endpoint that      *)
(* answers every request gets kafka_connect_up 1 and the lines of every    *)
(* listed connector, whatever happened to it in the previous cycle.        *)
(***************************************************************************)
\* the output of endpoint k computed from what it answered in the cycle
FromResult(k, res) ==
    LET instance == Instance(connect_urls[k])
        got == res.obtained
    IN  IF res.reachable
        THEN JoinLines(
                 Flatten([j \in 1..Len(got) |->
                             StatusLines(got[j].name, got[j].status, instance)])
                 \o SummaryLines(instance,
                                 Cardinality(res.listed),
                                 Cardinality(InState(got, RUNNING)),
                                 Cardinality(InState(got, FAILED))))
        ELSE UnreachableOutput(instance)

FromResults(results) ==
    Join([k \in 1..Len(results) |-> FromResult(k, results[k])])

\* the positions of the lines of a text that carry the label of endpoint k
LinesOfEndpoint(text, k) ==
    LET instance == Instance(connect_urls[k])
    IN  { n \in 1..Len(text) : IsLine(text[n]) /\ text[n].instance = instance }

\* the connectors the lines of endpoint k name in a text
NamedIn(text, k) ==
    { text[n].connector : n \in LinesOfEndpoint(text, k) } \ {NoId}

\* the values of the kafka_connect_up lines of endpoint k in a text
UpOf(text, k) ==
    { text[n].value : n \in { m \in LinesOfEndpoint(text, k) : IsUp(text[m]) } }

C18_NothingCarriedOver ==
    \A p \in Procs :
        MetricsReady(p) =>
            /\ Len(sc[p].results) = Len(connect_urls)
            /\ sc[p].metrics = FromResults(sc[p].results)
            /\ \A k \in 1..Len(sc[p].results) :
                  LET res == sc[p].results[k]
                  IN  /\ NamedIn(sc[p].metrics, k) = res.listed \ res.skipped
                      /\ UpOf(sc[p].metrics, k) = {Bit(res.reachable)}
                      /\ res.reachable =>
                            \A name \in res.listed \ res.skipped :
                                Len(ConnectorLines(sc[p].metrics, name)) >= 4

\* The loop has the exposition of a cycle ready and the cache still holds
\* the previous one.  Endpoint 1 was unreachable in the previous cycle and
\* has its full metrics now; endpoint 2 had a connector in the previous
\* cycle, lists none now and has no line naming it.
C18_Witness ==
    /\ pc["loop"] = "write"
    /\ Len(connect_urls) = 2
    /\ UpOf(committed, 1) = {0}
    /\ UpOf(sc["loop"].metrics, 1) = {1}
    /\ NamedIn(sc["loop"].metrics, 1) # {}
    /\ NamedIn(committed, 2) # {}
    /\ sc["loop"].results[2].reachable
    /\ NamedIn(sc["loop"].metrics, 2) = {}

(***************************************************************************)
(* C19.  In the output of a reachable endpoint, running + failed is at     *)
(* most the number of connectors that have connector-state lines, which is *)
(* at most total; total exceeds that number exactly when a status fetch of *)
(* the endpoint failed in the cycle.                                       *)
(***************************************************************************)
\* the connectors that have connector-state lines in an output
Emitted(out) ==
    { out[n].connector :
        n \in { m \in 1..Len(out) :
                  IsLine(out[m]) /\ out[m].metric = "kafka_connect_connector_state" } }

\* the status requests endpoint k received in the cycle of p
StatusFetches(p, k) == Cardinality(StatusRequested(p, k))

C19_CountersOrdered ==
    \A p \in Procs : \A k \in Reached(p) :
        LET out == sc[p].all[k]
            emitted == Cardinality(Emitted(out))
            total == Metric(out, "kafka_connect_connectors_total")[1].value
            running == Metric(out, "kafka_connect_connectors_running")[1].value
            failed == Metric(out, "kafka_connect_connectors_failed")[1].value
            fetchFailed == StatusFetches(p, k) > Len(sc[p].results[k].obtained)
        IN  /\ running + failed <= emitted
            /\ emitted <= total
            /\ total > emitted <=> fetchFailed
            /\ fetchFailed <=> sc[p].results[k].skipped # {}

\* two names listed, one fetch failed, the other connector is PAUSED:
\* running + failed = 0 < 1 connector with lines < total = 2
C19_Witness ==
    \E p \in Procs : \E k \in Reached(p) :
        LET out == sc[p].all[k]
        IN  /\ Metric(out, "kafka_connect_connectors_total")[1].value = 2
            /\ Cardinality(Emitted(out)) = 1
            /\ Metric(out, "kafka_connect_connectors_running")[1].value = 0
            /\ Metric(out, "kafka_connect_connectors_failed")[1].value = 0

(***************************************************************************)
(* C20.  The lock of the cache: the writer holds it only while no reader   *)
(* does and readers only while no writer does; a process holds the write   *)
(* lock only inside the assignment to the cache, never while it sends a    *)
(* request or sleeps, and a handler holds the read lock only while it      *)
(* clones.  Every cache write that is pending completes and every request  *)
(* that is being handled is answered, unless the process ends at startup.  *)
(***************************************************************************)
LockDiscipline ==
    /\ writer # "none" => readers = {}
    /\ writer \in Procs \cup {"none"}
    /\ \A p \in Procs :
          /\ writer = p <=> pc[p] \in {"drop", "move", "unlock"}
          /\ Scraping(p) \/ pc[p] = "sleep" => writer # p
    /\ \A h \in Handlers : h \in readers <=> hpc[h] \in {"clone", "respond"}

C20_LockWithoutDeadlock ==
    /\ []LockDiscipline
    /\ \A p \in Procs : []<>(~MetricsReady(p) \/ ~Alive)
    /\ \A h \in Handlers : []<>(hpc[h] = "idle")

\* every handler holds read access at once while the loop waits to write
C20_Witness ==
    /\ readers = Handlers
    /\ Cardinality(readers) >= 2
    /\ pc["loop"] = "write"
    /\ writer = "none"

=============================================================================
